---- MODULE Spec2Model ----
(***************************************************************************)
(* Model of backend/app/main.py: the summary cache (Redis, keyed by test   *)
(* id and content hash), the streaming relay stream_test_summary with its  *)
(* generator event_stream, the generation clients _anthropic_stream and    *)
(* _anthropic_complete, and the background prefetch                        *)
(* _prefetch_summaries_for_ids scheduled by get_tests.                     *)
(*                                                                         *)
(* Texts are sequences of one-character strings.  A Python generator is a  *)
(* process whose pc names the yield it is suspended at; the caller's       *)
(* next() runs it to its next yield in one step, and the caller's close()  *)
(* (a disconnect) can only arrive while it is suspended.                   *)
(***************************************************************************)
EXTENDS Integers, Sequences, FiniteSets, TLC

VARIABLES
    tests,        \* tests_col: test id -> raw document
    modules,      \* modules_col: module id -> Absent or the module document
    edits,        \* number of document changes made so far
    apiKey,       \* ANTHROPIC_API_KEY is set
    redisClient,  \* redis_client is not None (decided at start-up)
    redisUp,      \* the Redis server answers (else every command raises)
    cache,        \* Redis: set of entries [key, val, exp]
    now,          \* wall clock, in seconds
    req,          \* the summary requests: request -> record
    pf,           \* the prefetch background task
    listings      \* number of get_tests calls made so far

vars == <<tests, modules, edits, apiKey, redisClient, redisUp, cache, now,
          req, pf, listings>>

(***************************************************************************)
(* Bounds of the model.                                                    *)
(***************************************************************************)
MaxDeltas == 2
MaxEdits == 1
MaxTicks == 2
MaxListings == 1

\* The summary requests in flight: two, so that a request can find what an
\* earlier one stored and two can overlap.
Reqs == {1, 2}

(***************************************************************************)
(* Python values.  A text (str) is a sequence of tokens, each a character  *)
(* or a fixed literal of the source such as "data: ".                      *)
(***************************************************************************)
None == [none |-> TRUE]
Absent == [absent |-> TRUE]

RECURSIVE Concat(_)
Concat(ss) == IF ss = <<>> THEN <<>> ELSE Head(ss) \o Concat(Tail(ss))

RECURSIVE Join(_, _)
Join(sep, ss) ==
    IF ss = <<>> THEN <<>>
    ELSE IF Len(ss) = 1 THEN Head(ss)
    ELSE Head(ss) \o sep \o Join(sep, Tail(ss))

Whitespace == {" ", "\n", "\n\n"}

RECURSIVE LStrip(_)
LStrip(s) ==
    IF s # <<>> /\ Head(s) \in Whitespace THEN LStrip(Tail(s)) ELSE s

RECURSIVE RStrip(_)
RStrip(s) ==
    IF s # <<>> /\ s[Len(s)] \in Whitespace
    THEN RStrip(SubSeq(s, 1, Len(s) - 1))
    ELSE s

Strip(s) == RStrip(LStrip(s))

Prefix(s, n) == SubSeq(s, 1, IF Len(s) < n THEN Len(s) ELSE n)

Upper(t) ==
    CASE t = "module" -> "MODULE"
      [] t = "click" -> "CLICK"
      [] OTHER -> t

Quote == "\""

\* json.dumps of a str: the text between double quotes (the model's texts
\* hold no character that JSON escapes).
JsonDumps(s) == <<Quote>> \o s \o <<Quote>>

\* json.loads: [ok, val]; a quoted text decodes to the text (surrounding
\* whitespace is allowed), anything else in the model's chunks raises.
JsonLoads(j) ==
    LET t == Strip(j) IN
    IF Len(t) >= 2 /\ t[1] = Quote /\ t[Len(t)] = Quote
    THEN [ok |-> TRUE, val |-> SubSeq(t, 2, Len(t) - 1)]
    ELSE [ok |-> FALSE]

\* str.encode("utf-8") as redis-py applies it to a value, and bytes.decode.
Utf8Encode(s) == [bytes |-> s]
Utf8Decode(b) == b.bytes

(***************************************************************************)
(* Documents.                                                              *)
(***************************************************************************)
TestIds == <<"t1", "t2">>
ModuleIds == {"m1"}
UnknownTestId == "t9"

ClickStep ==
    [type |-> "PRESET_ACTION",
     command |-> [type |-> "click",
                  target |-> [elementDescriptor |-> <<"#submit">>]]]

TypeStep ==
    [type |-> "PRESET_ACTION",
     command |-> [type |-> "TYPE",
                  target |-> [elementDescriptor |-> <<"#name">>],
                  value |-> <<"b", "o", "b">>,
                  pressEnter |-> TRUE]]

ModuleStep(m) == [type |-> "module", moduleId |-> m]

\* The YAML of a test: t1 calls module m1, t2 has no module step.  As
\* ingested, t1 disables AI caching in its advanced options and t2 does not.
TestSteps(t) ==
    IF t = "t1" THEN <<ClickStep, ModuleStep("m1")>> ELSE <<ClickStep>>

TestRaw(t, name, noCache) ==
    [id |-> t, name |-> name, steps |-> TestSteps(t),
     advanced |-> [disableAICaching |-> noCache]]

\* The YAML of a module and the document the ingest script stores for it.
ModuleRaw(m, name) == [moduleId |-> m, name |-> name, steps |-> <<TypeStep>>]

ModuleDoc(m, name) ==
    [moduleId |-> m, name |-> name, steps |-> <<TypeStep>>,
     path |-> <<"modules/", m>>, raw |-> ModuleRaw(m, name)]

Names == {"v1", "v2"}

(***************************************************************************)
(* The step condenser, the fingerprint and the module lookup.              *)
(***************************************************************************)
Ellipsis == "..."

_step_synopsis(step) ==
    LET cmd == IF "command" \in DOMAIN step THEN step.command
               ELSE [x \in {} |-> x]
        ctype == IF "type" \in DOMAIN cmd THEN Upper(cmd.type) ELSE ""
        b0 == IF ctype # "" THEN <<<<ctype>>>> ELSE <<>>
        b1 == IF "target" \in DOMAIN cmd
                 /\ "elementDescriptor" \in DOMAIN cmd.target
                 /\ cmd.target.elementDescriptor # <<>>
              THEN <<<<"target=">> \o cmd.target.elementDescriptor>>
              ELSE <<>>
        b2 == IF "pressEnter" \in DOMAIN cmd /\ cmd.pressEnter
              THEN <<<<"pressEnter">>>> ELSE <<>>
        b3 == IF "clearContent" \in DOMAIN cmd /\ cmd.clearContent
              THEN <<<<"clearContent">>>> ELSE <<>>
        b4 == IF "value" \in DOMAIN cmd
              THEN LET v == cmd.value
                       w == IF Len(v) > 80
                            THEN SubSeq(v, 1, 77) \o <<Ellipsis>> ELSE v
                   IN <<<<"value=">> \o w>>
              ELSE <<>>
        b5 == IF "assertion" \in DOMAIN cmd /\ cmd.assertion # <<>>
              THEN LET a == cmd.assertion
                       w == IF Len(a) > 120
                            THEN SubSeq(a, 1, 117) \o <<Ellipsis>> ELSE a
                   IN <<<<"assertion=">> \o w>>
              ELSE <<>>
    IN Join(<<", ">>, b0 \o b1 \o b2 \o b3 \o b4 \o b5)

StepType(s) == IF "type" \in DOMAIN s THEN Upper(s.type) ELSE ""

RawSteps(raw) == IF "steps" \in DOMAIN raw THEN raw.steps ELSE <<>>

RECURSIVE SynopsisOfAll(_)
SynopsisOfAll(steps) ==
    IF steps = <<>> THEN <<>>
    ELSE <<_step_synopsis(Head(steps))>> \o SynopsisOfAll(Tail(steps))

\* One step of the loop of _summarize_steps: the lines it appends, or the
\* AttributeError of m.get on None when the module id is not in the index.
SummarizeStep(s, modules_idx) ==
    IF StepType(s) = "MODULE"
    THEN LET mid == IF "moduleId" \in DOMAIN s THEN s.moduleId ELSE "" IN
         IF mid \in DOMAIN modules_idx
         THEN [ok |-> TRUE, val |-> SynopsisOfAll(modules_idx[mid].steps)]
         ELSE [ok |-> FALSE, exc |-> "AttributeError"]
    ELSE [ok |-> TRUE, val |-> <<_step_synopsis(s)>>]

RECURSIVE SummarizeFrom(_, _)
SummarizeFrom(steps, modules_idx) ==
    IF steps = <<>> THEN [ok |-> TRUE, val |-> <<>>]
    ELSE LET h == SummarizeStep(Head(steps), modules_idx) IN
         IF ~h.ok THEN h
         ELSE LET t == SummarizeFrom(Tail(steps), modules_idx) IN
              IF ~t.ok THEN t ELSE [ok |-> TRUE, val |-> h.val \o t.val]

_summarize_steps(test, modules_idx) == SummarizeFrom(RawSteps(test), modules_idx)

\* SHA-256 of the canonical JSON, taken as collision-free: the digest of a
\* value is the value itself, tagged.
_json_sha256(obj) == [sha256 |-> obj]

RECURSIVE HashParts(_, _)
HashParts(steps, modules_idx) ==
    IF steps = <<>> THEN [ok |-> TRUE, val |-> <<>>]
    ELSE LET s == Head(steps)
             t == HashParts(Tail(steps), modules_idx)
         IN IF StepType(s) # "MODULE" THEN t
            ELSE LET mid == IF "moduleId" \in DOMAIN s THEN s.moduleId ELSE ""
                 IN IF mid \notin DOMAIN modules_idx
                    THEN [ok |-> FALSE, exc |-> "AttributeError"]
                    ELSE IF ~t.ok THEN t
                    ELSE [ok |-> TRUE,
                          val |-> <<modules_idx[mid].raw>> \o t.val]

\* A fingerprint of the test document alone.
HashWithoutModules(test_raw, modules_idx) ==
    [ok |-> TRUE, val |-> _json_sha256([parts |-> <<test_raw>>])]

_content_hash_from_docs(test_raw, modules_idx) ==
    LET p == HashParts(RawSteps(test_raw), modules_idx) IN
    IF ~p.ok THEN p
    ELSE [ok |-> TRUE, val |-> _json_sha256([parts |-> <<test_raw>> \o p.val])]

RECURSIVE _extract_module_ids(_)
_extract_module_ids(steps) ==
    IF steps = <<>> THEN <<>>
    ELSE LET s == Head(steps)
             rest == _extract_module_ids(Tail(steps))
         IN IF StepType(s) = "MODULE" /\ "moduleId" \in DOMAIN s
               /\ s.moduleId # ""
            THEN <<s.moduleId>> \o rest
            ELSE rest

Range(f) == {f[i] : i \in DOMAIN f}

\* modules_col.find({"moduleId": {"$in": ids}}): the documents that exist.
_load_modules_index_from_mongo_by_ids(module_ids, mods) ==
    LET found == {m \in Range(module_ids) :
                     m \in DOMAIN mods /\ mods[m] # Absent}
    IN [m \in found |->
          [name |-> mods[m].name, steps |-> mods[m].steps,
           path |-> mods[m].path, raw |-> mods[m].raw]]

(***************************************************************************)
(* The summary cache: Redis SETEX / GET behind _store_cached_summary and   *)
(* _get_cached_summary.                                                    *)
(***************************************************************************)
Some(v) == [none |-> FALSE, val |-> v]

TTL == 7 * 24 * 3600

CacheKey(test_id, c_hash) == <<"summary:", test_id, ":", c_hash>>

\* GET: the value of the live entry under the key, or nil.
RedisGet(c, t, key) ==
    LET live == {e \in c : e.key = key /\ t < e.exp} IN
    IF live = {} THEN None ELSE Some((CHOOSE e \in live : TRUE).val)

\* A SETEX that leaves an entry already under the key as it is.
RedisSetexKeepsFirst(c, t, key, ttl, value) ==
    IF \E e \in c : e.key = key THEN c
    ELSE c \cup {[key |-> key, val |-> Utf8Encode(value), exp |-> t + ttl]}

\* SETEX: the entry under the key is replaced and expires ttl seconds on.
RedisSetex(c, t, key, ttl, value) ==
    {e \in c : e.key # key}
        \cup {[key |-> key, val |-> Utf8Encode(value), exp |-> t + ttl]}

RedisReachable == redisClient /\ redisUp

\* A lookup that leaves the content hash out of the key.
GetWithoutHash(test_id, c_hash) ==
    IF redisClient /\ redisUp
    THEN LET val == RedisGet(cache, now, CacheKey(test_id, None)) IN
         IF ~val.none /\ val.val.bytes # <<>>
         THEN Some(Utf8Decode(val.val))
         ELSE None
    ELSE None

_get_cached_summary(test_id, c_hash) ==
    IF redisClient
    THEN IF redisUp
         THEN LET val == RedisGet(cache, now, CacheKey(test_id, c_hash)) IN
              IF ~val.none /\ val.val.bytes # <<>>
              THEN Some(Utf8Decode(val.val))
              ELSE None
         ELSE None            \* the command raises; except: pass
    ELSE None

\* A store that leaves the content hash out of the key.
StoreWithoutHash(test_id, c_hash, summary) ==
    IF redisClient /\ redisUp
    THEN RedisSetex(cache, now, CacheKey(test_id, None), TTL, summary)
    ELSE cache

\* A store that writes whether or not Redis answers.
StoreIgnoringOutage(test_id, c_hash, summary) ==
    RedisSetex(cache, now, CacheKey(test_id, c_hash), TTL, summary)

\* The cache after _store_cached_summary(test_id, c_hash, summary).
_store_cached_summary(test_id, c_hash, summary) ==
    IF redisClient
    THEN IF redisUp
         THEN RedisSetex(cache, now, CacheKey(test_id, c_hash), TTL, summary)
         ELSE cache           \* the command raises; except: pass
    ELSE cache

RECURSIVE SumOver(_, _)
SumOver(S, f) ==
    IF S = {} THEN 0
    ELSE LET x == CHOOSE x \in S : TRUE IN f[x] + SumOver(S \ {x}, f)

\* The number of calls of _store_cached_summary made so far.
TotalStores ==
    SumOver(DOMAIN req, [r \in DOMAIN req |-> Len(req[r].stores)])
        + Len(pf.stores)

\* What a call of _store_cached_summary is logged as: its arguments, the
\* time, whether Redis took the write, and its place among all the calls.
StoreCall(test_id, c_hash, summary) ==
    [tid |-> test_id, c_hash |-> c_hash, val |-> summary, at |-> now,
     ok |-> RedisReachable, seq |-> TotalStores + 1]

(***************************************************************************)
(* The generation client, streaming: _anthropic_stream.                    *)
(***************************************************************************)
\* The upstream is scripted: its i-th text delta carries the i-th letter.
Letters == <<"a", "b", "c", "d", "e">>
DeltaText(i) == <<Letters[i]>>

DataChunk(text) == <<"data: ">> \o JsonDumps(text) \o <<"\n\n">>
DoneChunk == <<"event: done\ndata: done\n\n">>
ErrorChunk(msg) == <<"event: error\ndata: ">> \o JsonDumps(msg) \o <<"\n\n">>
RetryChunk == <<"retry: 300\n\n">>
KeepAliveChunk == <<": keep-alive\n\n">>

TextDelta(t) ==
    [type |-> "content_block_delta",
     delta |-> [type |-> "text_delta", text |-> t]]

Payloads(n) ==
    {TextDelta(DeltaText(n)), TextDelta(<<>>)}
      \cup {[type |-> "content_block_delta",
             delta |-> [type |-> "input_json_delta"]],
            [type |-> "content_block_delta"],
            [type |-> "message_stop"],
            [event |-> "message_stop"],
            [type |-> "error", error |-> <<"overloaded">>],
            [type |-> "error"],
            [type |-> "ping"]}

\* The lines r.iter_lines can deliver when the next text delta is the n-th:
\* blank, not a data line, a data line that is not JSON, a data line whose
\* JSON is not an object (a string, a number, null), a data line holding a
\* payload.
RawLines(n) ==
    {[prefix |-> "", json |-> [ok |-> FALSE]],
     [prefix |-> "event: ", json |-> [ok |-> FALSE]],
     [prefix |-> "data: ", json |-> [ok |-> FALSE]],
     [prefix |-> "data: ", json |-> [ok |-> TRUE, dict |-> FALSE]]}
      \cup {[prefix |-> "data: ",
             json |-> [ok |-> TRUE, dict |-> TRUE, val |-> p]] :
               p \in Payloads(n)}

IsBlank(raw) == raw.prefix = "" /\ ~raw.json.ok

\* str(err) of an error payload.
PyStr(err) == IF "error" \in DOMAIN err THEN err.error ELSE <<"{error}">>

\* A client that answers every JSON data line with done and reads on.
StreamLineDoneAndOn(raw) ==
    IF IsBlank(raw) \/ raw.prefix # "data: " \/ ~raw.json.ok
    THEN [act |-> "skip"]
    ELSE [act |-> "yield", at |-> "yield180", ev |-> [type |-> "done"],
          chunk |-> DoneChunk]

\* The body of the loop over r.iter_lines for one line: skip it (continue),
\* or yield a chunk and go on, or yield a chunk and return, or raise
\* (payload.get on a value that is not a dict).
StreamLine(raw) ==
    IF IsBlank(raw) THEN [act |-> "skip"]
    ELSE IF raw.prefix # "data: " THEN [act |-> "skip"]
    ELSE IF ~raw.json.ok THEN [act |-> "skip"]
    ELSE IF ~raw.json.dict THEN [act |-> "raise", exc |-> "AttributeError"]
    ELSE LET payload == raw.json.val
             etype == IF "type" \in DOMAIN payload THEN payload.type
                      ELSE IF "event" \in DOMAIN payload THEN payload.event
                      ELSE ""
         IN IF etype = "content_block_delta"
            THEN IF "delta" \in DOMAIN payload
                    /\ "type" \in DOMAIN payload.delta
                    /\ payload.delta.type = "text_delta"
                    /\ "text" \in DOMAIN payload.delta
                    /\ payload.delta.text # <<>>
                 THEN [act |-> "yield", at |-> "yield180",
                       ev |-> [type |-> "delta", text |-> payload.delta.text],
                       chunk |-> DataChunk(payload.delta.text)]
                 ELSE [act |-> "skip"]
            ELSE IF etype = "message_stop"
            THEN [act |-> "return", at |-> "yield182",
                  ev |-> [type |-> "done"], chunk |-> DoneChunk]
            ELSE IF etype = "error"
            THEN [act |-> "return", at |-> "yield186",
                  ev |-> [type |-> "error"],
                  chunk |-> ErrorChunk(PyStr(payload))]
            ELSE [act |-> "skip"]

(***************************************************************************)
(* The generation client, blocking: _anthropic_complete.                   *)
(***************************************************************************)
TextBlock(t) == [type |-> "text", text |-> t]

\* What requests.post can come back with.
CompleteOutcomes ==
    {[kind |-> "exception"],
     [kind |-> "response", status |-> 500, text |-> <<"overloaded">>],
     [kind |-> "response", status |-> 200, content |-> <<>>],
     [kind |-> "response", status |-> 200, content |-> <<TextBlock(<<" ">>)>>],
     [kind |-> "response", status |-> 200, content |-> <<TextBlock(<<"a">>)>>],
     [kind |-> "response", status |-> 200,
      content |-> <<TextBlock(<<"a">>), [type |-> "tool_use"],
                    TextBlock(<<>>), TextBlock(<<"b">>)>>]}

RECURSIVE TextBlocks(_)
TextBlocks(content) ==
    IF content = <<>> THEN <<>>
    ELSE LET b == Head(content) IN
         IF "type" \in DOMAIN b /\ b.type = "text"
            /\ "text" \in DOMAIN b /\ b.text # <<>>
         THEN <<b.text>> \o TextBlocks(Tail(content))
         ELSE TextBlocks(Tail(content))

_anthropic_complete(o) ==
    IF o.kind = "exception"
    THEN <<"(Request error: ", "timeout", ")">>
    ELSE IF o.status >= 400
    THEN <<"(Upstream error: ">> \o Prefix(o.text, 500) \o <<")">>
    ELSE LET summary == Strip(Join(<<"\n\n">>, TextBlocks(o.content))) IN
         IF summary # <<>> THEN summary ELSE <<"(No summary returned)">>

\* The outcomes that are a generated summary, not an error or a placeholder.
IsGenerated(o) ==
    o.kind = "response" /\ o.status < 400
      /\ Strip(Join(<<"\n\n">>, TextBlocks(o.content))) # <<>>

(***************************************************************************)
(* State.                                                                  *)
(***************************************************************************)
TestDoc(t, name, noCache, ts) ==
    [id |-> t, raw |-> TestRaw(t, name, noCache), updatedAtTs |-> ts]

IdleReq ==
    [pc |-> "idle", tid |-> "", c_hash |-> None, cached |-> None,
     buffer |-> <<>>, up |-> <<>>, out |-> <<>>, stores |-> <<>>,
     conn |-> "none", inner |-> "none", gen |-> 0, ignored |-> 0,
     stale |-> FALSE]

IdlePf ==
    [pc |-> "idle", ids |-> <<>>, docs |-> <<>>, idx |-> <<>>, i |-> 1,
     c_hash |-> None, gens |-> <<>>, stores |-> <<>>, outcomes |-> <<>>,
     hits |-> <<>>, resp |-> None]

Init ==
    /\ tests = [t \in Range(TestIds) |->
                  IF t = "t1" THEN TestDoc(t, "v1", TRUE, 2)
                  ELSE TestDoc(t, "v1", FALSE, 1)]
    /\ modules \in [ModuleIds -> {Absent, ModuleDoc("m1", "v1")}]
    /\ edits = 0
    /\ apiKey \in BOOLEAN
    /\ redisClient \in BOOLEAN
    /\ redisUp = TRUE
    /\ cache = {}
    /\ now = 0
    /\ req = [r \in Reqs |-> IdleReq]
    /\ pf = IdlePf
    /\ listings = 0

(***************************************************************************)
(* stream_test_summary: the handler up to the StreamingResponse.           *)
(***************************************************************************)
Finished(r) == req[r].pc = "finished"

\* History, for the properties: at the lookup Redis answered and held a live
\* entry of the test under a content hash other than c_hash.
StaleEntry(test_id, c_hash) ==
    /\ RedisReachable
    /\ \E e \in cache :
          e.key[2] = test_id /\ e.key[4] # c_hash /\ now < e.exp

StartRequest(r, test_id) ==
    /\ req[r].pc = "idle"
    /\ r > 1 => req[r - 1].pc # "idle"
    /\ UNCHANGED <<tests, modules, edits, apiKey, redisClient, redisUp,
                   cache, now, pf, listings>>
    /\ IF test_id \notin DOMAIN tests
       THEN req' = [req EXCEPT ![r].pc = "http404", ![r].tid = test_id]
       ELSE LET test_doc == tests[test_id].raw
                mids == _extract_module_ids(RawSteps(test_doc))
                modules_idx ==
                    _load_modules_index_from_mongo_by_ids(mids, modules)
                synopsis == _summarize_steps(test_doc, modules_idx)
                c_hash == _content_hash_from_docs(test_doc, modules_idx)
            IN IF ~synopsis.ok \/ ~c_hash.ok
               THEN req' = [req EXCEPT ![r].pc = "http500",
                                       ![r].tid = test_id]
               ELSE req' = [req EXCEPT
                       ![r].pc = "resp",
                       ![r].tid = test_id,
                       ![r].c_hash = c_hash.val,
                       ![r].cached = _get_cached_summary(test_id, c_hash.val),
                       ![r].stale = StaleEntry(test_id, c_hash.val)]

(***************************************************************************)
(* event_stream: the generator the StreamingResponse iterates.  Each       *)
(* action below is one next() of the caller, from the yield the generator  *)
(* is suspended at to its next yield (or its end).                         *)
(***************************************************************************)
Suspended ==
    {"resp", "y_retry", "y_keepalive", "y_cached", "y_cdone", "y_chunk"}

ReqFrame == <<tests, modules, edits, apiKey, redisClient, redisUp, now,
              pf, listings>>

YieldRetry(r) ==
    /\ req[r].pc = "resp"
    /\ req' = [req EXCEPT ![r].pc = "y_retry",
                          ![r].out = Append(@, RetryChunk)]
    /\ UNCHANGED <<cache, ReqFrame>>

YieldKeepAlive(r) ==
    /\ req[r].pc = "y_retry"
    /\ req' = [req EXCEPT ![r].pc = "y_keepalive",
                          ![r].out = Append(@, KeepAliveChunk)]
    /\ UNCHANGED <<cache, ReqFrame>>

\* A relay that never takes the cached branch.
IsCachedIgnored(q) == FALSE

\* Line 387: `if cached`.
IsCached(q) == ~q.cached.none /\ q.cached.val # <<>>

YieldCached(r) ==
    /\ req[r].pc = "y_keepalive"
    /\ IsCached(req[r])
    /\ req' = [req EXCEPT ![r].pc = "y_cached",
                          ![r].out = Append(@, DataChunk(req[r].cached.val))]
    /\ UNCHANGED <<cache, ReqFrame>>

YieldCachedDone(r) ==
    /\ req[r].pc = "y_cached"
    /\ req' = [req EXCEPT ![r].pc = "y_cdone",
                          ![r].out = Append(@, DoneChunk)]
    /\ UNCHANGED <<cache, ReqFrame>>

ReturnCached(r) ==
    /\ req[r].pc = "y_cdone"
    /\ req' = [req EXCEPT ![r].pc = "finished"]
    /\ UNCHANGED <<cache, ReqFrame>>

\* A relay that keeps only the latest delta instead of appending it.
RelayBufferKeepsLast(buffer, chunk) ==
    IF chunk # <<>> /\ Head(chunk) = "data: "
    THEN LET delta == JsonLoads(Tail(chunk)) IN
         IF delta.ok THEN <<delta.val>> ELSE buffer
    ELSE buffer

\* Lines 393-400: the relay's handling of one chunk of _anthropic_stream:
\* the buffer after it.
RelayBuffer(buffer, chunk) ==
    IF chunk # <<>> /\ Head(chunk) = "data: "
    THEN LET delta == JsonLoads(Tail(chunk)) IN
         IF delta.ok THEN Append(buffer, delta.val) ELSE buffer
    ELSE buffer

\* Line 400: what the relay yields to its caller for a chunk.
RelayYield(chunk) == <<chunk>>

\* The request after _anthropic_stream yielded chunk at its yield `at`.
Relayed(q, d) ==
    [q EXCEPT !.pc = "y_chunk",
              !.inner = d.at,
              !.ignored = 0,
              !.up = Append(@, d.ev),
              !.buffer = RelayBuffer(@, d.chunk),
              !.out = @ \o RelayYield(d.chunk)]

NumDeltas(q) == Cardinality({i \in DOMAIN q.up : q.up[i].type = "delta"})

\* The chunk of the except clause (line 190); the message of the exception,
\* str(e), is one opaque token.
RaisedChunk ==
    [at |-> "yield190", ev |-> [type |-> "error"],
     chunk |-> ErrorChunk(<<"Upstream error: ", "str(e)">>)]

\* The first next() of _anthropic_stream: requests.post, lines 157-162.
OpenUpstream(r) ==
    /\ req[r].pc = "y_keepalive"
    /\ ~IsCached(req[r])
    /\ \E o \in {"ok", "status", "exception"} :
          LET q == [req[r] EXCEPT !.gen = @ + 1, !.buffer = <<>>] IN
          req' = [req EXCEPT ![r] =
                    CASE o = "ok" ->
                           [q EXCEPT !.pc = "pull", !.conn = "open",
                                     !.inner = "iter_lines"]
                      [] o = "status" ->
                           Relayed([q EXCEPT !.conn = "open"],
                                   [at |-> "yield161", ev |-> [type |-> "error"],
                                    chunk |-> ErrorChunk(<<"Anthropic error">>)])
                      [] o = "exception" -> Relayed(q, RaisedChunk)]
    /\ UNCHANGED <<cache, ReqFrame>>

\* r.iter_lines delivers a line.  The lines ignored since the last yield are
\* counted modulo 2.
ReadLine(r) ==
    /\ req[r].pc = "pull"
    /\ \E raw \in RawLines(NumDeltas(req[r]) + 1) :
          LET d == StreamLine(raw) IN
          /\ d.act = "yield" => NumDeltas(req[r]) < MaxDeltas
          /\ req' = CASE d.act = "skip" ->
                            [req EXCEPT ![r].ignored = 1 - @]
                       [] d.act = "raise" ->
                            [req EXCEPT ![r] =
                               Relayed([req[r] EXCEPT !.conn = "closed"],
                                       RaisedChunk)]
                       [] OTHER -> [req EXCEPT ![r] = Relayed(req[r], d)]
    /\ UNCHANGED <<cache, ReqFrame>>

\* A client that reports the end of the lines as an error.
EndOfLinesAsError(r) ==
    /\ req[r].pc = "pull"
    /\ req' = [req EXCEPT ![r] =
                 Relayed(req[r], [at |-> "yield188", ev |-> [type |-> "error"],
                                  chunk |-> ErrorChunk(<<"closed">>)])]
    /\ UNCHANGED <<cache, ReqFrame>>

\* r.iter_lines is exhausted: the upstream closed the stream (line 188).
\* The event is marked, for the properties, as the done of the end of the
\* stream; the chunk is the one of an explicit stop.
EndOfLines(r) ==
    /\ req[r].pc = "pull"
    /\ req' = [req EXCEPT ![r] =
                 Relayed(req[r], [at |-> "yield188",
                                  ev |-> [type |-> "done", eof |-> TRUE],
                                  chunk |-> DoneChunk])]
    /\ UNCHANGED <<cache, ReqFrame>>

\* r.iter_lines raises (read timeout, connection reset): the with block is
\* left and the except clause yields the error (line 190).
ReadFails(r) ==
    /\ req[r].pc = "pull"
    /\ req' = [req EXCEPT ![r] =
                 Relayed([req[r] EXCEPT !.conn = "closed"],
                         RaisedChunk)]
    /\ UNCHANGED <<cache, ReqFrame>>

\* next() after a delta was forwarded: back into the loop over the lines.
ResumeStream(r) ==
    /\ req[r].pc = "y_chunk"
    /\ req[r].inner = "yield180"
    /\ req' = [req EXCEPT ![r].pc = "pull", ![r].inner = "iter_lines"]
    /\ UNCHANGED <<cache, ReqFrame>>

\* Lines 401-403: whether the relay stores when the loop has ended.
StoresAtEnd(q) == q.buffer # <<>>

\* A relay that computes the content hash again when it stores.
FinishStreamRehashing(r) ==
    /\ req[r].pc = "y_chunk"
    /\ req[r].inner # "yield180"
    /\ LET q == req[r]
           full == Concat(q.buffer)
           raw == tests[q.tid].raw
           h == _content_hash_from_docs(
                    raw, _load_modules_index_from_mongo_by_ids(
                             _extract_module_ids(RawSteps(raw)), modules))
           c_hash == IF h.ok THEN h.val ELSE q.c_hash
           released == IF q.conn = "open" THEN "closed" ELSE q.conn
       IN IF StoresAtEnd(q)
          THEN /\ cache' = _store_cached_summary(q.tid, c_hash, full)
               /\ req' = [req EXCEPT
                            ![r].pc = "finished", ![r].conn = released,
                            ![r].inner = "returned",
                            ![r].stores =
                                Append(@, StoreCall(q.tid, c_hash, full))]
          ELSE /\ cache' = cache
               /\ req' = [req EXCEPT
                            ![r].pc = "finished", ![r].conn = released,
                            ![r].inner = "returned"]
    /\ UNCHANGED ReqFrame

\* next() after the last chunk of _anthropic_stream was forwarded: the inner
\* generator returns (leaving its with block), the loop ends, lines 401-403.
FinishStream(r) ==
    /\ req[r].pc = "y_chunk"
    /\ req[r].inner # "yield180"
    /\ LET q == req[r]
           full == Concat(q.buffer)
           released == IF q.conn = "open" THEN "closed" ELSE q.conn
       IN IF StoresAtEnd(q)
          THEN /\ cache' = _store_cached_summary(q.tid, q.c_hash, full)
               /\ req' = [req EXCEPT
                            ![r].pc = "finished", ![r].conn = released,
                            ![r].inner = "returned",
                            ![r].stores =
                                Append(@, StoreCall(q.tid, q.c_hash, full))]
          ELSE /\ cache' = cache
               /\ req' = [req EXCEPT
                            ![r].pc = "finished", ![r].conn = released,
                            ![r].inner = "returned"]
    /\ UNCHANGED ReqFrame

\* A relay whose store sits in a finally block: closing it stores too.
CancelStoring(r) ==
    /\ req[r].pc \in Suspended
    /\ LET q == req[r]
           full == Concat(q.buffer)
       IN IF q.buffer # <<>>
          THEN /\ cache' = _store_cached_summary(q.tid, q.c_hash, full)
               /\ req' = [req EXCEPT
                            ![r].pc = "cancelled",
                            ![r].conn = IF @ = "open" THEN "closed" ELSE @,
                            ![r].stores =
                                Append(@, StoreCall(q.tid, q.c_hash, full))]
          ELSE /\ cache' = cache
               /\ req' = [req EXCEPT
                            ![r].pc = "cancelled",
                            ![r].conn = IF @ = "open" THEN "closed" ELSE @]
    /\ UNCHANGED ReqFrame

\* The caller disconnects: the generator is closed at the yield it is
\* suspended at (GeneratorExit), and with it _anthropic_stream, whose with
\* block releases the connection.
Cancel(r) ==
    /\ req[r].pc \in Suspended
    /\ req' = [req EXCEPT
                 ![r].pc = "cancelled",
                 ![r].conn = IF @ = "open" THEN "closed" ELSE @]
    /\ UNCHANGED <<cache, ReqFrame>>

(***************************************************************************)
(* get_tests and the background task _prefetch_summaries_for_ids.          *)
(***************************************************************************)
RECURSIVE SortedByTs(_)
\* .sort("updatedAtTs", -1): the ids of the set, newest first.
SortedByTs(S) ==
    IF S = {} THEN <<>>
    ELSE LET t == CHOOSE x \in S :
                    \A y \in S : tests[y].updatedAtTs <= tests[x].updatedAtTs
         IN <<t>> \o SortedByTs(S \ {t})

\* .skip(skip).limit(pageSize) of a sequence.
Page(s, skip, pageSize) ==
    SubSeq(s, skip + 1,
           IF Len(s) < skip + pageSize THEN Len(s) ELSE skip + pageSize)

PfFrame == <<tests, modules, edits, apiKey, redisClient, redisUp, now, req>>

\* tests_col.find({"id": {"$in": ids}}): the documents, in stored order.
RECURSIVE FindTests(_, _)
FindTests(stored, ids) ==
    IF stored = <<>> THEN <<>>
    ELSE IF Head(stored) \in Range(ids)
    THEN <<[id |-> Head(stored), raw |-> tests[Head(stored)].raw]>>
             \o FindTests(Tail(stored), ids)
    ELSE FindTests(Tail(stored), ids)

RECURSIVE MidsUnion(_)
MidsUnion(docs) ==
    IF docs = <<>> THEN {}
    ELSE Range(_extract_module_ids(RawSteps(Head(docs).raw)))
           \cup MidsUnion(Tail(docs))

RECURSIVE SetToSeq(_)
SetToSeq(S) ==
    IF S = {} THEN <<>>
    ELSE LET x == CHOOSE x \in S : TRUE IN <<x>> \o SetToSeq(S \ {x})

\* TestSummary(**d) of the documents with the given ids (of its fields the
\* model keeps the id and the name the ingest script copied from the YAML).
RECURSIVE Summaries(_)
Summaries(ids) ==
    IF ids = <<>> THEN <<>>
    ELSE <<[id |-> Head(ids), name |-> tests[Head(ids)].raw.name]>>
             \o Summaries(Tail(ids))

\* Lines 349-361 and 365: the page of the listing.
PaginatedTests(page, pageSize) ==
    LET total == Cardinality(DOMAIN tests)
        skip == (page - 1) * pageSize
        ids == Page(SortedByTs(DOMAIN tests), skip, pageSize)
    IN [items |-> Summaries(ids), total |-> total, page |-> page,
        pageSize |-> pageSize,
        totalPages |-> (total + pageSize - 1) \div pageSize]

RECURSIVE IdsOf(_)
IdsOf(items) ==
    IF items = <<>> THEN <<>> ELSE <<Head(items).id>> \o IdsOf(Tail(items))

\* A listing that runs the start of the prefetch itself before it answers.
GetTestsThenPrefetch(page, pageSize) ==
    /\ listings < MaxListings
    /\ pf.pc \in {"idle", "done", "crashed"}
    /\ LET resp == PaginatedTests(page, pageSize)
           docs == FindTests(TestIds, IdsOf(resp.items))
       IN pf' = [IdlePf EXCEPT
                   !.pc = IF docs = <<>> THEN "done" ELSE "loop",
                   !.ids = IdsOf(resp.items),
                   !.docs = docs,
                   !.idx = _load_modules_index_from_mongo_by_ids(
                               SetToSeq(MidsUnion(docs)), modules),
                   !.resp = Some(resp)]
    /\ listings' = listings + 1
    /\ UNCHANGED <<cache, PfFrame>>

\* get_tests: the prefetch of the ids of the page is added to the background
\* tasks, which run once the response has been sent, and the page is
\* returned.
get_tests(page, pageSize) ==
    /\ listings < MaxListings
    /\ pf.pc \in {"idle", "done", "crashed"}
    /\ LET resp == PaginatedTests(page, pageSize)
       IN pf' = [IdlePf EXCEPT !.pc = "scheduled",
                               !.ids = IdsOf(resp.items),
                               !.resp = Some(resp)]
    /\ listings' = listings + 1
    /\ UNCHANGED <<cache, PfFrame>>

\* A prefetch that does not look at the credential.
PrefetchStartWithoutKey ==
    /\ pf.pc = "scheduled"
    /\ IF pf.ids = <<>>
       THEN pf' = [pf EXCEPT !.pc = "done"]
       ELSE LET docs == FindTests(TestIds, pf.ids)
                modules_idx ==
                    _load_modules_index_from_mongo_by_ids(
                        SetToSeq(MidsUnion(docs)), modules)
            IN pf' = [pf EXCEPT !.pc = IF docs = <<>> THEN "done" ELSE "loop",
                                !.docs = docs, !.idx = modules_idx, !.i = 1]
    /\ UNCHANGED <<cache, listings, PfFrame>>

\* Lines 299-312: the early returns, the documents and the module index.
PrefetchStart ==
    /\ pf.pc = "scheduled"
    /\ IF pf.ids = <<>> \/ ~apiKey
       THEN pf' = [pf EXCEPT !.pc = "done"]
       ELSE LET docs == FindTests(TestIds, pf.ids)
                modules_idx ==
                    _load_modules_index_from_mongo_by_ids(
                        SetToSeq(MidsUnion(docs)), modules)
            IN pf' = [pf EXCEPT !.pc = IF docs = <<>> THEN "done" ELSE "loop",
                                !.docs = docs, !.idx = modules_idx, !.i = 1]
    /\ UNCHANGED <<cache, listings, PfFrame>>

\* The prefetch after the loop has dealt with document i.
PfAdvance(p) ==
    [p EXCEPT !.i = @ + 1,
              !.pc = IF p.i + 1 > Len(p.docs) THEN "done" ELSE "loop"]

\* Lines 314-321: one document up to the cache lookup; a miss goes on to the
\* blocking completion, an exception ends the task.
PrefetchLookup ==
    /\ pf.pc = "loop"
    /\ LET d == pf.docs[pf.i]
           synopsis == _summarize_steps(d.raw, pf.idx)
           c_hash == _content_hash_from_docs(d.raw, pf.idx)
       IN IF ~synopsis.ok \/ ~c_hash.ok
          THEN pf' = [pf EXCEPT !.pc = "crashed"]
          ELSE LET cached == _get_cached_summary(d.id, c_hash.val) IN
               IF ~cached.none /\ cached.val # <<>>
               THEN pf' = [PfAdvance(pf) EXCEPT !.hits = Append(@, d.id)]
               ELSE pf' = [pf EXCEPT !.pc = "gen", !.c_hash = c_hash.val,
                                     !.gens = Append(@, d.id)]
    /\ UNCHANGED <<cache, listings, PfFrame>>

\* Lines 321-322: the completion returns and its result is stored.
PrefetchStore ==
    /\ pf.pc = "gen"
    /\ \E o \in CompleteOutcomes :
          LET d == pf.docs[pf.i]
              summary == _anthropic_complete(o)
          IN /\ cache' = _store_cached_summary(d.id, pf.c_hash, summary)
             /\ pf' = [PfAdvance(pf) EXCEPT
                         !.stores = Append(@, StoreCall(d.id, pf.c_hash,
                                                        summary)),
                         !.outcomes = Append(@, o)]
    /\ UNCHANGED <<listings, PfFrame>>

(***************************************************************************)
(* The environment: documents change, Redis fails and recovers, time       *)
(* passes.                                                                 *)
(***************************************************************************)
EnvFrame == <<apiKey, redisClient, cache, req, pf, listings>>

\* The YAML of a test is changed (its name) and ingested again.
EditTest(t) ==
    /\ edits < MaxEdits
    /\ \E n \in Names :
          LET f == tests[t].raw.advanced.disableAICaching IN
          /\ TestRaw(t, n, f) # tests[t].raw
          /\ tests' = [tests EXCEPT ![t] = TestDoc(t, n, f, 2 + edits + 1)]
    /\ edits' = edits + 1
    /\ UNCHANGED <<modules, redisUp, now, EnvFrame>>

EditModule(m) ==
    /\ edits < MaxEdits
    /\ \E d \in {Absent} \cup {ModuleDoc(m, n) : n \in Names} :
          /\ d # modules[m]
          /\ modules' = [modules EXCEPT ![m] = d]
    /\ edits' = edits + 1
    /\ UNCHANGED <<tests, redisUp, now, EnvFrame>>

RedisFails ==
    /\ redisClient /\ redisUp
    /\ redisUp' = FALSE
    /\ UNCHANGED <<tests, modules, edits, now, EnvFrame>>

RedisRecovers ==
    /\ redisClient /\ ~redisUp
    /\ redisUp' = TRUE
    /\ UNCHANGED <<tests, modules, edits, now, EnvFrame>>

\* Time passes.  The clock is read by nothing but the expiry of the entries
\* of Redis, so it is counted from the moment Redis holds an entry.
Tick ==
    /\ cache # {}
    /\ now < MaxTicks * (TTL \div 2)
    /\ now' = now + TTL \div 2
    /\ UNCHANGED <<tests, modules, edits, redisUp, EnvFrame>>

\* The steps of the requests whose callers stay connected.
StreamNext ==
    \/ \E r \in Reqs, t \in Range(TestIds) \cup {UnknownTestId} :
          StartRequest(r, t)
    \/ \E r \in Reqs : YieldRetry(r)
    \/ \E r \in Reqs : YieldKeepAlive(r)
    \/ \E r \in Reqs : YieldCached(r)
    \/ \E r \in Reqs : YieldCachedDone(r)
    \/ \E r \in Reqs : ReturnCached(r)
    \/ \E r \in Reqs : OpenUpstream(r)
    \/ \E r \in Reqs : ReadLine(r)
    \/ \E r \in Reqs : EndOfLines(r)
    \/ \E r \in Reqs : ReadFails(r)
    \/ \E r \in Reqs : ResumeStream(r)
    \/ \E r \in Reqs : FinishStream(r)

RelayNext ==
    \/ StreamNext
    \/ \E r \in Reqs : Cancel(r)

PrefetchNext ==
    \/ \E page \in 1 .. 2, pageSize \in 1 .. 2 : get_tests(page, pageSize)
    \/ PrefetchStart
    \/ PrefetchLookup
    \/ PrefetchStore

EditNext ==
    \/ \E t \in Range(TestIds) : EditTest(t)
    \/ \E m \in ModuleIds : EditModule(m)

RedisNext ==
    \/ RedisFails
    \/ RedisRecovers

\* The streaming relay under a failing Redis and passing time.
Next == RelayNext \/ RedisNext \/ Tick

RelayInit == Init /\ apiKey

Spec == RelayInit /\ [][Next]_vars

\* The prefetch under changing documents and a failing Redis.
SpecPrefetch == Init /\ [][PrefetchNext \/ EditNext \/ RedisNext]_vars

\* The streaming relay under changing documents, with Redis answering and
\* the callers staying connected.
EditsInit == Init /\ apiKey /\ redisClient /\ modules["m1"] # Absent

SpecEdits == EditsInit /\ [][StreamNext \/ EditNext]_vars

\* The steps the server takes on its own for request r: the response
\* iterates the generator as long as the caller stays connected, and
\* requests.post returns or raises within its timeout.
ConsumerStep(r) ==
    \/ YieldRetry(r)
    \/ YieldKeepAlive(r)
    \/ YieldCached(r)
    \/ YieldCachedDone(r)
    \/ ReturnCached(r)
    \/ OpenUpstream(r)
    \/ ResumeStream(r)
    \/ FinishStream(r)

\* A read of the upstream stream returns: with a line, with the end of the
\* stream, or with the read timeout (timeout=60 bounds each read).
UpstreamRead(r) ==
    \/ ReadLine(r)
    \/ EndOfLines(r)
    \/ ReadFails(r)

\* The streaming relay with callers that stay connected, where every step
\* of the server and every read of the upstream completes.
LiveInit == Init /\ apiKey /\ redisClient /\ modules["m1"] # Absent

Fairness ==
    \A r \in Reqs : WF_vars(ConsumerStep(r)) /\ WF_vars(UpstreamRead(r))

SpecLive == LiveInit /\ [][StreamNext]_vars /\ Fairness

(***************************************************************************)
(* Properties of the streaming relay.                                      *)
(***************************************************************************)
Preamble == <<RetryChunk, KeepAliveChunk>>

Last(s) == s[Len(s)]

\* The requests that got as far as a StreamingResponse.
Streaming(q) == q.pc \notin {"idle", "http404", "http500"}

\* The request found nothing in the cache when it started.
Missed(q) == Streaming(q) /\ q.cached.none

\* What _anthropic_stream yielded: n >= 0 deltas, then `last`.
DeltasThen(up, last) ==
    /\ up # <<>>
    /\ Last(up).type = last
    /\ \A i \in 1 .. Len(up) - 1 : up[i].type = "delta"

RECURSIVE DeltaTextsOf(_)
DeltaTextsOf(up) ==
    IF up = <<>> THEN <<>>
    ELSE IF Head(up).type = "delta"
    THEN <<Head(up).text>> \o DeltaTextsOf(Tail(up))
    ELSE DeltaTextsOf(Tail(up))

RECURSIVE DataChunks(_)
DataChunks(texts) ==
    IF texts = <<>> THEN <<>>
    ELSE <<DataChunk(Head(texts))>> \o DataChunks(Tail(texts))

IsErrorChunk(chunk) == chunk # <<>> /\ Head(chunk) = "event: error\ndata: "

\* C1. Streaming completeness: a request that missed the cache and whose
\* upstream yielded N >= 1 deltas then done has, once its generator has run
\* to its end, forwarded the preamble, exactly those N deltas in order and
\* one done, and made exactly one store call, under its key, whose value is
\* the concatenation of the N deltas.
C1_StreamingCompleteness ==
    \A r \in Reqs :
        LET q == req[r]
            texts == DeltaTextsOf(q.up)
        IN (Finished(r) /\ Missed(q) /\ DeltasThen(q.up, "done")
              /\ Len(q.up) >= 2)
           => /\ q.out = Preamble \o DataChunks(texts) \o <<DoneChunk>>
              /\ Len(q.stores) = 1
              /\ q.stores[1].val = Concat(texts)
              /\ q.stores[1].tid = q.tid
              /\ q.stores[1].c_hash = q.c_hash
              /\ q.gen = 1

C1_Witness ==
    \E r \in Reqs :
        /\ Finished(r) /\ Missed(req[r]) /\ DeltasThen(req[r].up, "done")
        /\ Len(req[r].up) = 3
        /\ req[r].stores # <<>>
        /\ req[r].stores[1].val = <<"a", "b">>

\* C2. Streaming failure: a request that missed the cache and whose upstream
\* yielded k-1 deltas then an error has forwarded those deltas and one
\* terminal error, and no store call of it was taken by the cache.
C2_StreamingFailure ==
    \A r \in Reqs :
        LET q == req[r]
            texts == DeltaTextsOf(q.up)
        IN (Finished(r) /\ Missed(q) /\ DeltasThen(q.up, "error"))
           => /\ Len(q.out) = 2 + Len(q.up)
              /\ SubSeq(q.out, 1, Len(q.out) - 1) = Preamble \o DataChunks(texts)
              /\ IsErrorChunk(Last(q.out))
              /\ \A i \in DOMAIN q.stores : ~q.stores[i].ok

\* C3. Cache-hit short-circuit: a request that found its key cached makes no
\* upstream call, holds no connection, makes no store call, and forwards the
\* preamble, the cached text as one delta, and done.
HitOutput(q) == Preamble \o <<DataChunk(q.cached.val), DoneChunk>>

C3_CacheHitShortCircuit ==
    \A r \in Reqs :
        LET q == req[r] IN
        (Streaming(q) /\ ~q.cached.none)
           => /\ q.gen = 0
              /\ q.up = <<>>
              /\ q.conn = "none"
              /\ q.stores = <<>>
              /\ q.out = Prefix(HitOutput(q), Len(q.out))
              /\ Finished(r) => q.out = HitOutput(q)

C3_Witness ==
    \E r \in Reqs :
        /\ Finished(r) /\ ~req[r].cached.none
        /\ req[r].out = HitOutput(req[r])

\* C4. Cancellation: the step that closes a relay writes nothing to the
\* cache, leaves the request without a store call and without an open
\* connection, and a closed relay never moves again (it consumes no further
\* upstream event).
C4_Step(r) ==
    /\ (req[r].pc # "cancelled" /\ req'[r].pc = "cancelled")
          => /\ cache' = cache
             /\ req'[r].stores = <<>>
             /\ req'[r].conn # "open"
             /\ req'[r].up = req[r].up
    /\ req[r].pc = "cancelled" => req'[r] = req[r]

C4_Cancellation == [][\A r \in Reqs : C4_Step(r)]_vars

C4_Witness ==
    \E r \in Reqs :
        /\ req[r].pc = "cancelled"
        /\ req[r].buffer # <<>>
        /\ req[r].conn = "closed"
        /\ req[r].inner = "yield180"

(***************************************************************************)
(* Properties of the cache as the requests use it.                         *)
(***************************************************************************)
\* The step in which request r is received and answered.
Starts(r) == req[r].pc = "idle" /\ req'[r].pc # "idle"

\* No earlier request was for the same test (requests start in index order).
FirstForTest(r) ==
    /\ Streaming(req[r])
    /\ \A p \in Reqs : (p < r /\ Streaming(req[p])) => req[p].tid # req[r].tid

FirstIsMiss ==
    \A r \in Reqs :
        FirstForTest(r)
           => /\ req[r].cached.none
              /\ req[r].gen <= 1
              /\ Finished(r) => req[r].gen = 1

HitMakesNoCall ==
    \A r \in Reqs : (Streaming(req[r]) /\ ~req[r].cached.none) => req[r].gen = 0

\* Request p ran to its end on a stream that closed with done, for the test
\* and content that request r reads in this step.
CompletedBefore(p, r) ==
    /\ Finished(p) /\ Missed(req[p]) /\ DeltasThen(req[p].up, "done")
    /\ req[p].tid = req'[r].tid
    /\ req[p].c_hash = req'[r].c_hash
    /\ \A i \in DOMAIN req[p].stores : req[p].stores[i].ok

AllStores ==
    UNION {Range(req[r].stores) : r \in DOMAIN req} \cup Range(pf.stores)

\* The puts Redis took, and the last of them on the key of put c.
Puts == {c \in AllStores : c.ok}

IsLastPut(c) ==
    \A d \in Puts : (d.tid = c.tid /\ d.c_hash = c.c_hash) => d.seq <= c.seq

\* C6. Get/put round trip with TTL: for the last put on a key, a get on the
\* key returns the stored summary while less than the TTL has passed since
\* the put (and Redis answers), and absent once the TTL has passed.
C6_GetAfterPut ==
    \A c \in Puts :
        IsLastPut(c)
           => IF now < c.at + TTL
              THEN RedisReachable
                      => _get_cached_summary(c.tid, c.c_hash) = Some(c.val)
              ELSE _get_cached_summary(c.tid, c.c_hash) = None

C6_Witness ==
    \E c \in Puts :
        /\ IsLastPut(c) /\ now >= c.at + TTL /\ RedisReachable
        /\ \E e \in cache : e.key = CacheKey(c.tid, c.c_hash)

\* The test document a request read.
ReadDoc(q) == q.c_hash.sha256.parts[1]

\* C7. Bypass honesty: a request for a test whose advanced options disable
\* AI caching is never served from the cache, and runs generation.
C7_BypassHonesty ==
    \A r \in Reqs :
        (Streaming(req[r]) /\ ReadDoc(req[r]).advanced.disableAICaching)
           => /\ req[r].cached.none
              /\ Finished(r) => req[r].gen = 1

\* The number of synopsis lines the steps call for: one per plain step, one
\* per step of a resolved module, one marker for an unresolved module.
RECURSIVE ExpectedLines(_, _)
ExpectedLines(steps, modules_idx) ==
    IF steps = <<>> THEN 0
    ELSE LET s == Head(steps)
             n == IF StepType(s) = "MODULE" /\ s.moduleId \in DOMAIN modules_idx
                  THEN Len(modules_idx[s.moduleId].steps)
                  ELSE 1
         IN n + ExpectedLines(Tail(steps), modules_idx)

\* C8. Missing-module handling: for every request received for a stored
\* test, condensing the test against the modules that resolve raises nothing
\* and yields a line for every step, a single marker for a module step that
\* does not resolve; the request does not fail on it.
C8_MissingModule ==
    \A r \in Reqs :
        (req[r].pc # "idle" /\ req[r].tid \in DOMAIN tests)
           => LET raw == tests[req[r].tid].raw
                  modules_idx ==
                      _load_modules_index_from_mongo_by_ids(
                          _extract_module_ids(RawSteps(raw)), modules)
                  synopsis == _summarize_steps(raw, modules_idx)
              IN /\ synopsis.ok
                 /\ Len(synopsis.val) = ExpectedLines(RawSteps(raw), modules_idx)
                 /\ req[r].pc # "http500"

\* What the relay must have forwarded for what _anthropic_stream yielded.
ForwardedAll(q) ==
    /\ Len(q.out) = 2 + Len(q.up)
    /\ SubSeq(q.out, 1, 2) = Preamble
    /\ \A i \in DOMAIN q.up :
          LET chunk == q.out[2 + i] IN
          CASE q.up[i].type = "delta" -> chunk = DataChunk(q.up[i].text)
            [] q.up[i].type = "done" -> chunk = DoneChunk
            [] q.up[i].type = "error" -> IsErrorChunk(chunk)

\* C9. Cache unavailability degrades, never fails: while Redis is unreachable
\* (no client, or the server down) a request that starts gets a miss, no
\* step changes the cache, and a lookup of any stored key returns absent;
\* every request that missed and ran to its end made its generation call and
\* forwarded everything the upstream yielded, ending on done or error.
C9_Step ==
    /\ ~RedisReachable
          => /\ cache' = cache
             /\ \A r \in Reqs : Starts(r) => req'[r].cached.none
             /\ \A e \in cache : _get_cached_summary(e.key[2], e.key[4]) = None
    /\ \A r \in Reqs :
          (Finished(r)' /\ Missed(req'[r]))
             => /\ req'[r].gen = 1
                /\ ForwardedAll(req'[r])
                /\ Last(req'[r].up).type \in {"done", "error"}

PfEnded == pf.pc \in {"done", "crashed"}

\* The batch documents the task dealt with: found cached, or generated and
\* stored.
PfHandled == Range(pf.hits) \cup {c.tid : c \in Range(pf.stores)}

\* C10. Partial-failure isolation: when the task has ended, every document
\* of the batch other than one whose own processing failed (a module of it
\* does not resolve) was found cached or was generated and stored.
C10_PrefetchIsolation ==
    PfEnded
       => \A i \in DOMAIN pf.docs :
             _summarize_steps(pf.docs[i].raw, pf.idx).ok
                => pf.docs[i].id \in PfHandled

(***************************************************************************)
(* Concurrent requests on one key.                                         *)
(***************************************************************************)
\* Both requests missed the cache for the same key, ran their own generation
\* and made their store call.
BothGenerated ==
    /\ Finished(1) /\ Finished(2)
    /\ Missed(req[1]) /\ Missed(req[2])
    /\ req[1].tid = req[2].tid /\ req[1].c_hash = req[2].c_hash
    /\ req[1].gen = 1 /\ req[2].gen = 1
    /\ req[1].stores # <<>> /\ req[2].stores # <<>>

\* The entry Redis holds for put c: its key, its encoded text, its expiry.
EntryOf(c) ==
    [key |-> CacheKey(c.tid, c.c_hash), val |-> Utf8Encode(c.val),
     exp |-> c.at + TTL]

\* C11. No single-flight, last write wins: nothing stops two requests that
\* missed on the same key from both generating and both writing; the cache
\* always holds at most one entry per key, every entry is exactly what the
\* last put Redis took on its key wrote, and every key Redis took a put on
\* holds the text of the last of them (so after two requests have both
\* written, the text of whichever wrote last).
C11_LastWriteWins ==
    /\ \A e \in cache : \A f \in cache : e.key = f.key => e = f
    /\ \A e \in cache : \E c \in Puts : IsLastPut(c) /\ e = EntryOf(c)
    /\ \A c \in Puts : IsLastPut(c) => EntryOf(c) \in cache
    /\ BothGenerated
          => \A c \in Range(req[1].stores) \cup Range(req[2].stores) :
                (c.ok /\ IsLastPut(c) /\ now < c.at + TTL /\ RedisReachable)
                   => _get_cached_summary(c.tid, c.c_hash) = Some(c.val)

\* Both wrote, with different texts, and the entry is the later one's.
C11_Witness ==
    /\ BothGenerated
    /\ req[1].stores[1].ok /\ req[2].stores[1].ok
    /\ req[1].stores[1].val # req[2].stores[1].val
    /\ req[1].stores[1].seq > req[2].stores[1].seq
    /\ req[1].pc = "finished" /\ RedisReachable
    /\ _get_cached_summary(req[1].tid, req[1].c_hash)
          = Some(req[1].stores[1].val)

(***************************************************************************)
(* Requests while the documents change.                                    *)
(***************************************************************************)
\* The content a request for test t reads in this state: the YAML of the
\* test and of each module its steps call, in step order.
ContentRead(t) ==
    LET raw == tests[t].raw
        modules_idx ==
            _load_modules_index_from_mongo_by_ids(
                _extract_module_ids(RawSteps(raw)), modules)
    IN <<raw>> \o HashParts(RawSteps(raw), modules_idx).val

\* The content a put was keyed by.
ContentOf(c) == c.c_hash.sha256.parts

\* C12. Invalidation by superseding fingerprint: a request that is served
\* from the cache is served the text of a put made for its test under the
\* fingerprint of exactly the content (test YAML and YAML of the modules it
\* calls) the request read; a put made for other content of the test has
\* another key than the request's, and a request that found a live entry of
\* its test under another fingerprint is not served from the cache.
C12_Step ==
    \A r \in Reqs :
        (Starts(r) /\ Streaming(req'[r]))
           => LET q == req'[r] IN
              /\ ContentOf(q) = ContentRead(q.tid)
              /\ \A d \in Puts :
                    (d.tid = q.tid /\ ContentOf(d) # ContentRead(q.tid))
                       => CacheKey(d.tid, d.c_hash) # CacheKey(q.tid, q.c_hash)
              /\ ~q.cached.none
                    => \E c \in Puts :
                          /\ c.tid = q.tid
                          /\ ContentOf(c) = ContentRead(q.tid)
                          /\ c.c_hash = q.c_hash
                          /\ c.val = q.cached.val
              /\ (q.stale /\ ~\E c \in Puts : c.tid = q.tid /\ c.c_hash = q.c_hash)
                    => q.cached.none

C12_Invalidation == [][C12_Step]_vars

\* A module of the test changed; the next request for the test found the
\* entry an earlier request had stored for the old content live in Redis,
\* and was not served it.
C12_Witness ==
    /\ edits > 0
    /\ Finished(1) /\ req[1].stores # <<>> /\ req[1].stores[1].ok
    /\ Streaming(req[2]) /\ req[2].tid = req[1].tid
    /\ req[2].stale /\ req[2].cached.none
    /\ Len(ContentOf(req[2])) = 2
    /\ ContentOf(req[2])[1] = ContentOf(req[1])[1]
    /\ ContentOf(req[2])[2] # ContentOf(req[1])[2]

(***************************************************************************)
(* Properties of the listing and the prefetch it schedules.                *)
(***************************************************************************)
\* The step is a call of get_tests.
Lists == listings' = listings + 1

\* The prefetch has done nothing yet: no document read, no lookup, no
\* generation call, no store call.
PfUntouched(p) ==
    /\ p.docs = <<>> /\ p.idx = <<>>
    /\ p.hits = <<>> /\ p.gens = <<>> /\ p.stores = <<>> /\ p.outcomes = <<>>

\* C13. Prefetch does not delay its trigger: the step in which get_tests
\* answers leaves the cache as it is and the prefetch it scheduled not yet
\* started (no document lookup, no generation call, no store call); the
\* response is the page computed from the stored tests, and no step of the
\* prefetch, whether it ends or fails, changes the response given.
C13_Step ==
    /\ Lists
          => /\ cache' = cache
             /\ pf'.pc = "scheduled"
             /\ PfUntouched(pf')
             /\ \E page \in 1 .. 2, pageSize \in 1 .. 2 :
                   /\ pf'.resp = Some(PaginatedTests(page, pageSize))
                   /\ pf'.ids = IdsOf(PaginatedTests(page, pageSize).items)
    /\ ~Lists => pf'.resp = pf.resp

C13_PrefetchAfterResponse == [][C13_Step]_vars

\* A listing answered with both tests, and the prefetch it scheduled then
\* failed on its first document.
C13_Witness ==
    /\ pf.pc = "crashed"
    /\ ~pf.resp.none /\ Len(pf.resp.val.items) = 2
    /\ pf.resp.val.totalPages = 1
    /\ pf.docs # <<>> /\ pf.stores = <<>>

\* C14. Prefetch is a no-op without a credential: with ANTHROPIC_API_KEY
\* unset the prefetch, whatever its batch, reads no document, looks nothing
\* up in the cache, makes no generation call and no store call, leaves the
\* cache empty, and ends without an exception.
C14_NoCredentialNoOp ==
    ~apiKey
       => /\ PfUntouched(pf)
          /\ pf.c_hash = None
          /\ cache = {}
          /\ pf.pc \in {"idle", "scheduled", "done"}

C14_Witness ==
    /\ ~apiKey
    /\ pf.pc = "done"
    /\ Len(pf.ids) = 2
    /\ modules["m1"] = Absent

\* The blocking call ended in an upstream failure: requests.post raised (a
\* timeout, a refused connection) or the status was not a success.
UpstreamFailed(o) == o.kind = "exception" \/ o.status >= 400

\* C15. Only successful generations are cached: every store call of the
\* prefetch that Redis took carries the text of a completion that did not
\* end in an upstream failure, and every entry of the cache was written by
\* such a call.
C15_OnlySuccessCached ==
    /\ \A i \in DOMAIN pf.stores :
          pf.stores[i].ok => ~UpstreamFailed(pf.outcomes[i])
    /\ \A e \in cache :
          \E i \in DOMAIN pf.stores :
             /\ pf.stores[i].ok /\ e = EntryOf(pf.stores[i])
             /\ ~UpstreamFailed(pf.outcomes[i])

(***************************************************************************)
(* Properties of the generation client _anthropic_stream.                  *)
(***************************************************************************)
IsTerminal(ev) == ev.type \in {"done", "error"}

OneError == <<[type |-> "error"]>>

\* C16. Shape of the generation stream: in what _anthropic_stream has
\* yielded only the last event can be terminal, and after a terminal event
\* the client reads no further line; a client that has returned yielded
\* deltas and then exactly one done or error; a refused connection or a
\* non-success status yields the single event error; the client always ends
\* by returning, never by raising into the relay; and of the lines a
\* reading client can receive, a blank line, a line that is no data line
\* and a data line that is not JSON yield nothing.
C16_StreamShape ==
    /\ \A r \in Reqs :
          LET q == req[r] IN
          /\ \A i \in DOMAIN q.up : IsTerminal(q.up[i]) => i = Len(q.up)
          /\ \A i \in DOMAIN q.up :
                q.up[i].type = "delta" => q.up[i].text # <<>>
          /\ (q.up # <<>> /\ IsTerminal(Last(q.up))) => q.pc # "pull"
          /\ q.inner = "returned"
                => (DeltasThen(q.up, "done") \/ DeltasThen(q.up, "error"))
          /\ (Finished(r) /\ q.gen = 1) => q.inner = "returned"
          /\ q.inner = "yield161" => q.up = OneError
          /\ (q.inner = "yield190" /\ q.conn = "none") => q.up = OneError
    /\ \A r \in Reqs :
          req[r].pc = "pull"
             => \A raw \in RawLines(NumDeltas(req[r]) + 1) :
                   (IsBlank(raw) \/ raw.prefix # "data: " \/ ~raw.json.ok)
                      => StreamLine(raw).act = "skip"

\* A client that returned after two deltas and an error.
C16_Witness ==
    \E r \in Reqs :
        /\ req[r].inner = "returned"
        /\ DeltasThen(req[r].up, "error") /\ Len(req[r].up) = 3
        /\ req[r].conn = "closed"

\* The number of places of s that hold x.
Count(s, x) == Cardinality({i \in DOMAIN s : s[i] = x})

\* The store calls the prefetch made for test t.
PfStoresOf(t) == {i \in DOMAIN pf.stores : pf.stores[i].tid = t}

\* C17. Prefetch generates exactly the misses: the prefetch generates only
\* for tests of its batch; for a test it found cached it makes no generation
\* call and no store call; and when it has ended, every test of the batch
\* that was found and not cached had exactly one generation call and one
\* store call, under the test id and the fingerprint of its documents.
C17_ExactlyTheMisses ==
    /\ \A i \in DOMAIN pf.gens : pf.gens[i] \in Range(pf.ids)
    /\ \A t \in Range(pf.hits) : Count(pf.gens, t) = 0 /\ PfStoresOf(t) = {}
    /\ PfEnded
          => \A i \in DOMAIN pf.docs :
                LET t == pf.docs[i].id
                    c_hash == _content_hash_from_docs(pf.docs[i].raw, pf.idx)
                IN t \notin Range(pf.hits)
                      => /\ Count(pf.gens, t) = 1
                         /\ Cardinality(PfStoresOf(t)) = 1
                         /\ c_hash.ok
                         /\ \A j \in PfStoresOf(t) :
                               pf.stores[j].c_hash = c_hash.val

(***************************************************************************)
(* The store of the relay.                                                 *)
(***************************************************************************)
\* Request r makes a store call in this step.
Stores(r) == req'[r].stores # req[r].stores

\* C18. Relay writes only under its start key: the key of a request is the
\* test id and the fingerprint of the content it read when it started, and
\* stays so whatever changes afterwards; a request makes at most one store
\* call, with a non-empty joined buffer, under that key, and the step changes
\* no entry of the cache under another key; a relay that ends with an empty
\* buffer makes no store call and leaves the cache as it is.
C18_Step ==
    /\ \A r \in Reqs :
          /\ (Starts(r) /\ Streaming(req'[r]))
                => ContentOf(req'[r]) = ContentRead(req'[r].tid)
          /\ req[r].pc # "idle"
                => /\ req'[r].tid = req[r].tid
                   /\ req'[r].c_hash = req[r].c_hash
          /\ Len(req'[r].stores) <= 1
          /\ Stores(r)
                => LET c == req'[r].stores[1]
                       key == CacheKey(req[r].tid, req[r].c_hash)
                   IN /\ c.tid = req[r].tid /\ c.c_hash = req[r].c_hash
                      /\ req[r].buffer # <<>>
                      /\ c.val = Concat(req[r].buffer)
                      /\ c.val # <<>>
                      /\ {e \in cache' : e.key # key}
                            = {e \in cache : e.key # key}
                      /\ c.ok => EntryOf(c) \in cache'
          /\ (req[r].pc # "finished" /\ req'[r].pc = "finished"
                 /\ req[r].buffer = <<>>)
                => req'[r].stores = <<>> /\ cache' = cache
    /\ cache' # cache => \E r \in Reqs : Stores(r)

C18_WritesUnderStartKey == [][C18_Step]_vars

\* A request stored under the key it started with after the module of its
\* test had changed, and after the other request had written the cache.
C18_Witness ==
    /\ modules["m1"] # Absent
    /\ \E r \in Reqs :
          /\ Finished(r) /\ req[r].stores # <<>> /\ req[r].stores[1].ok
          /\ req[r].stores[1].seq = 2
          /\ req[r].tid = "t1"
          /\ ContentOf(req[r]) # ContentRead("t1")
          /\ EntryOf(req[r].stores[1]) \in cache

(***************************************************************************)
(* Termination of the relay.                                               *)
(***************************************************************************)
ForwardedTerminal(q) ==
    \E i \in DOMAIN q.out : q.out[i] = DoneChunk \/ IsErrorChunk(q.out[i])

\* C19. No unbounded hang: when every read of the upstream returns (with a
\* line, the end of the stream, or a timeout), every request that got its
\* streaming response and whose caller stays connected eventually forwards
\* a terminal chunk, done or error.
C19_NoUnboundedHang ==
    \A r \in Reqs : (req[r].pc = "resp") ~> ForwardedTerminal(req[r])

(***************************************************************************)
(* The end of the upstream stream without a stop payload.                  *)
(***************************************************************************)
\* The last event the client yielded is the done of line 188.
EndedByEof(q) == q.up # <<>> /\ "eof" \in DOMAIN Last(q.up)

\* The last event the client yielded is the done of a message_stop payload.
EndedByStop(q) ==
    /\ q.up # <<>> /\ Last(q.up).type = "done"
    /\ "eof" \notin DOMAIN Last(q.up)

\* What the relay does at the end of a stream that closed with done: one
\* store call with the joined buffer under the key of the request if the
\* buffer is not empty (the entry is in the cache if Redis took it), else
\* no store call and the cache as it was.
StoresAsForDone(q, q2) ==
    IF q.buffer # <<>>
    THEN /\ Len(q2.stores) = 1
         /\ q2.stores[1].tid = q.tid /\ q2.stores[1].c_hash = q.c_hash
         /\ q2.stores[1].val = Concat(q.buffer)
         /\ cache' = IF RedisReachable
                     THEN RedisSetex(cache, now, CacheKey(q.tid, q.c_hash),
                                     TTL, Concat(q.buffer))
                     ELSE cache
    ELSE q2.stores = <<>> /\ cache' = cache

\* C20. End of stream without a stop payload: when the lines end the client
\* yields done (the same chunk as for message_stop), which the relay
\* forwards without touching its buffer; and the relay ends a stream closed
\* this way exactly as one closed by message_stop: it stores the joined
\* buffer under its key if the buffer is not empty, and nothing otherwise.
C20_Step ==
    \A r \in Reqs :
        LET q == req[r]
            q2 == req'[r]
        IN /\ (q.pc = "pull" /\ q2.pc = "y_chunk" /\ q2.inner = "yield188")
                 => /\ EndedByEof(q2) /\ Last(q2.up).type = "done"
                    /\ Last(q2.out) = DoneChunk
                    /\ q2.buffer = q.buffer
                    /\ DeltasThen(q2.up, "done")
           /\ (q.pc = "y_chunk" /\ q2.pc = "finished"
                 /\ (EndedByEof(q) \/ EndedByStop(q)))
                 => StoresAsForDone(q, q2)
           /\ (q.pc = "y_chunk" /\ EndedByEof(q)) => q.inner = "yield188"

C20_EndOfStreamIsDone == [][C20_Step]_vars

\* The upstream closed after two deltas without a stop payload, and the
\* relay has stored the two of them and the entry is in the cache.
C20_Witness ==
    \E r \in Reqs :
        /\ Finished(r) /\ EndedByEof(req[r]) /\ Len(req[r].up) = 3
        /\ Last(req[r].out) = DoneChunk
        /\ req[r].stores # <<>> /\ req[r].stores[1].val = <<"a", "b">>
        /\ req[r].stores[1].ok
        /\ EntryOf(req[r].stores[1]) \in cache

====
